---- MODULE Spec2Model ----
(***************************************************************************)
(* Model of the match service of PitchMe_presale_test:                     *)
(*   match_service/profile_schema.py   Profile and its derived queries     *)
(*   match_service/utils.py            merge_intervals, LowerCaseFrozenSet *)
(*   match_service/specifications.py   specifications, factory, chain      *)
(*   main.py                           the run: build chain, then evaluate *)
(*                                                                         *)
(* Dates are day numbers.  A Python exception is modelled as the err field *)
(* of the record an operator returns ("none" when the call returns).       *)
(***************************************************************************)
EXTENDS Integers, Sequences, FiniteSets, Bags, TLC

VARIABLES
    pc,           \* position of the modelled run
    experiences,  \* Profile.experiences (raw before construction)
    lastN,        \* argument n of the last get_n_last_experiences call
    result,       \* what the last call returned
    intervals,    \* the list object handed to merge_intervals
    given,        \* the arguments of the last call, as they were passed
    skills,       \* Profile.skills
    location,     \* Profile.location
    criteria,     \* target_position_criteria: the items of the mapping, in order
    target,       \* target_specification, as chain_specifications_for_position left it
    printed,      \* rejection messages printed by the evaluation
    calls         \* the leaves whose is_satisfied_by the evaluation ran

profileVars == <<skills, location>>

chainVars == <<criteria, target, printed, calls>>

vars == <<pc, experiences, lastN, result, intervals, given, skills, location,
          criteria, target, printed, calls>>

----------------------------------------------------------------------------
(* Bounds of the model *)

MaxDay == 2      \* dates of the profile model are 0..MaxDay
MaxExp == 3      \* raw experiences per profile
MaxN   == 4      \* largest window n asked of get_n_last_experiences
MaxMergeDay  == 3   \* dates of the interval lists are 0..MaxMergeDay
MaxIntervals == 3   \* intervals per list handed to merge_intervals
MaxNames     == 2   \* names listed in a skills criterion
MaxHits      == 2   \* largest number_of_hits of a criterion
MaxWindow    == 2   \* largest check_last_n_experiences of a criterion
MaxRunExp    == 2   \* raw experiences of the profile a run reads
MaxCountries == 2   \* countries listed in a location criterion
MaxCriteria  == 3   \* entries of a criteria mapping

----------------------------------------------------------------------------
(* Values *)

\* Optional[date]: ends_at of an ongoing experience
None == -1

\* date.today() as seen by the validator
Today == 1

Dates == 0..MaxDay

Idle == "idle"

NoErr == "none"

Ok(v) == [err |-> NoErr, val |-> v]

Raise(e) == [err |-> e, val |-> <<>>]

\* class Experience: the fields the derived queries and the leaves read
Experience(c, t, sk, s, e) ==
    [company_name |-> c, job_title |-> t, skills |-> sk, starts_at |-> s, ends_at |-> e]

----------------------------------------------------------------------------
(* profile_schema.py: Profile *)

\* del experiences[idx]
RemoveAt(s, i) == [j \in 1..(Len(s) - 1) |-> IF j < i THEN s[j] ELSE s[j + 1]]

\* The loop of the root validator: the list iterator stands at idx (1-based)
\* and moves on by one after every body, also after a del.
RECURSIVE ValidateFrom(_, _)
ValidateFrom(exps, idx) ==
    IF idx > Len(exps) THEN exps
    ELSE LET e       == exps[idx]
             ends    == IF e.ends_at = None THEN Today ELSE e.ends_at
             visited == [exps EXCEPT ![idx] = [e EXCEPT !.ends_at = ends]]
         IN  IF e.starts_at >= ends
             THEN ValidateFrom(RemoveAt(visited, idx), idx + 1)
             ELSE ValidateFrom(visited, idx + 1)

check_start_date_precedes_end_date(exps) == ValidateFrom(exps, 1)

Key(e, sorting_criteria) ==
    IF sorting_criteria = "ends_at" THEN e.ends_at ELSE e.starts_at

\* sorted() is stable: e goes behind every element whose key is <= its own
RECURSIVE InsertSorted(_, _, _)
InsertSorted(s, e, by) ==
    IF s = <<>> THEN <<e>>
    ELSE IF Key(Head(s), by) <= Key(e, by)
         THEN <<Head(s)>> \o InsertSorted(Tail(s), e, by)
         ELSE <<e>> \o s

RECURSIVE SortedBy(_, _)
SortedBy(s, by) ==
    IF s = <<>> THEN <<>>
    ELSE InsertSorted(SortedBy(SubSeq(s, 1, Len(s) - 1), by), s[Len(s)], by)

\* sorted(self.experiences, key=...): comparing a None key with a date raises
\* TypeError; a list of fewer than two elements is never compared.
get_experiences_sorted_by(exps, sorting_criteria) ==
    IF Len(exps) >= 2 /\ \E i \in 1..Len(exps) : Key(exps[i], sorting_criteria) = None
    THEN Raise("TypeError")
    ELSE Ok(SortedBy(exps, sorting_criteria))

\* sorted_experiences[-1 : -n - 1 : -1] for 0 <= n < len
ReverseSlice(s, n) == [i \in 1..n |-> s[Len(s) - i + 1]]

get_n_last_experiences(exps, n) ==
    LET sorted_experiences == get_experiences_sorted_by(exps, "ends_at")
    IN  IF sorted_experiences.err # NoErr THEN sorted_experiences
        ELSE IF n = None THEN Raise("TypeError")
        ELSE IF Len(sorted_experiences.val) <= n THEN sorted_experiences
        ELSE Ok(ReverseSlice(sorted_experiences.val, n))

----------------------------------------------------------------------------
(* SpecProfile: a Profile is constructed from raw data, then queried *)

RawDateExperiences ==
    {Experience("acme", "dev", {}, s, e) : s \in Dates, e \in Dates \cup {None}}

SeqsUpTo(S, n) == UNION {[1..k -> S] : k \in 0..n}

InitProfile ==
    /\ pc = "raw"
    /\ experiences \in SeqsUpTo(RawDateExperiences, MaxExp)
    /\ lastN = 0
    /\ result = Idle
    /\ intervals = <<>>
    /\ given = Idle
    /\ skills = {}
    /\ location = Idle
    /\ criteria = <<>>
    /\ target = Idle
    /\ printed = <<>>
    /\ calls = <<>>

\* Profile construction: the root validator runs once, over the whole list
Construct ==
    /\ pc = "raw"
    /\ experiences' = check_start_date_precedes_end_date(experiences)
    /\ pc' = "constructed"
    /\ UNCHANGED <<lastN, result, intervals, given, profileVars, chainVars>>

GetNLast ==
    /\ pc \in {"constructed", "queried"}
    /\ \E n \in 0..MaxN :
         /\ lastN' = n
         /\ result' = get_n_last_experiences(experiences, n)
    /\ pc' = "queried"
    /\ UNCHANGED <<experiences, intervals, given, profileVars, chainVars>>

NextProfile == Construct \/ GetNLast

SpecProfile == InitProfile /\ [][NextProfile]_vars

----------------------------------------------------------------------------
(* utils.py: merge_intervals *)

Max(a, b) == IF a >= b THEN a ELSE b

\* mutant of Touches: touching intervals are not merged
TouchesStrictly(start, previous_end) == start < previous_end

\* if start <= previous_end
Touches(start, previous_end) == start <= previous_end

\* The loop over intervals[1:].  acc is non_overlapping_intervals; comparing
\* a date with None (start <= previous_end, max(previous_end, end)) raises
\* TypeError, leaving acc as the statements before it made it.
RECURSIVE MergeLoop(_, _)
MergeLoop(acc, rest) ==
    IF rest = <<>> THEN [err |-> NoErr, val |-> acc]
    ELSE LET start        == Head(rest)[1]
             end          == Head(rest)[2]
             previous_end == acc[Len(acc)][2]
         IN  IF previous_end = None THEN [err |-> "TypeError", val |-> acc]
             ELSE IF Touches(start, previous_end)
                  THEN IF end = None THEN [err |-> "TypeError", val |-> acc]
                       ELSE MergeLoop([acc EXCEPT ![Len(acc)][2] = Max(previous_end, end)],
                                      Tail(rest))
                  ELSE MergeLoop(Append(acc, <<start, end>>), Tail(rest))

\* val is the list returned; arg is the argument list as the call leaves it:
\* the result's first pair is the very object intervals[0], so extending it
\* writes into the argument.
merge_intervals(ivs) ==
    IF ivs = <<>> THEN [err |-> "IndexError", val |-> <<>>, arg |-> ivs]
    ELSE LET out == MergeLoop(<<ivs[1]>>, Tail(ivs))
         IN  [err |-> out.err,
              val |-> IF out.err = NoErr THEN out.val ELSE <<>>,
              arg |-> [ivs EXCEPT ![1] = out.val[1]]]

----------------------------------------------------------------------------
(* utils.py: comparison_functions, LowerCaseFrozenSet, the hit rule;
   constants.py *)

NUMBER_OF_DAYS_IN_ONE_YEAR == 365

FAANG == {"facebook", "meta", "apple", "amazon", "netflix", "google"}

EU_COUNTRIES ==
    {"Austria", "Belgium", "Bulgaria", "Croatia", "Cyprus", "Czech Republic",
     "Denmark", "Estonia", "Finland", "France", "Germany", "Greece", "Hungary",
     "Ireland", "Italy", "Latvia", "Lithuania", "Luxembourg", "Malta",
     "Netherlands", "Poland", "Portugal", "Romania", "Slovakia", "Slovenia",
     "Spain", "Sweden"}

comparison_functions(operand, x, y) ==
    CASE operand = ">"  -> x > y
      [] operand = ">=" -> x >= y
      [] operand = "<"  -> x < y
      [] operand = "<=" -> x <= y
      [] operand = "==" -> x = y

\* str.lower() on the strings the model uses
Lower(str) ==
    CASE str \in {"Miro", "MIRO"}     -> "miro"
      [] str \in {"Sketch", "SKETCH"} -> "sketch"
      [] str = "Figma"                -> "figma"
      [] str \in {"Google", "GOOGLE"} -> "google"
      [] str = "Glovo"                -> "glovo"
      [] str = "NASA"                 -> "nasa"
      [] str = "UX Designer"          -> "ux designer"
      [] str = "Product Designer"     -> "product designer"
      [] str = "FAANG"                -> "faang"
      [] OTHER                        -> str

\* str.upper(), as far as the factory uses it: country.upper() == 'EU'
Upper(str) ==
    CASE str \in {"eu", "Eu", "eU", "EU"} -> "EU"
      [] str = "Spain"                    -> "SPAIN"
      [] str = "USA"                      -> "USA"
      [] str = "Serbia"                   -> "SERBIA"
      [] OTHER                            -> str

LowerCaseFrozenSet(data) == {Lower(x) : x \in data}

\* bool(number_of_hits): None and 0 are falsy
Truthy(number_of_hits) == number_of_hits # None /\ number_of_hits # 0

has_intersection_or_is_subset(set_to_evaluate, required_set, number_of_hits) ==
    IF Truthy(number_of_hits)
    THEN Cardinality(set_to_evaluate \cap required_set) = number_of_hits
    ELSE required_set \subseteq set_to_evaluate

\* round(days / NUMBER_OF_DAYS_IN_ONE_YEAR, 1), in tenths of a year.  The
\* quotient is never halfway between two tenths (20 * days is even and
\* 365 * (2k + 1) is odd), so rounding is to the nearest tenth.
YearsInTenths(days) ==
    (20 * days + NUMBER_OF_DAYS_IN_ONE_YEAR) \div (2 * NUMBER_OF_DAYS_IN_ONE_YEAR)

----------------------------------------------------------------------------
(* profile_schema.py: Profile.count_years_of_experience *)

RECURSIVE SumDays(_)
SumDays(ivs) ==
    IF ivs = <<>> THEN 0 ELSE (ivs[1][2] - ivs[1][1]) + SumDays(Tail(ivs))

\* [[experience.starts_at, experience.ends_at] for experience in ...]: one
\* new two-element list per experience, holding its dates
IntervalsOf(sorted_experiences) ==
    [i \in 1..Len(sorted_experiences) |->
        <<sorted_experiences[i].starts_at, sorted_experiences[i].ends_at>>]

\* val is the number of years in tenths.  (end - start) with end = None
\* raises TypeError.
count_years_of_experience(exps, count_overlapping_experiences) ==
    LET sorted_experiences == SortedBy(exps, "starts_at")
        pairs  == IntervalsOf(sorted_experiences)
        merged == IF count_overlapping_experiences
                  THEN [err |-> NoErr, val |-> pairs]
                  ELSE merge_intervals(pairs)
    IN  IF merged.err # NoErr THEN Raise(merged.err)
        ELSE IF \E i \in 1..Len(merged.val) : merged.val[i][2] = None
             THEN Raise("TypeError")
             ELSE Ok(YearsInTenths(SumDays(merged.val)))

\* mutant of OwnList: the pair is a view of the experience's own dates
ViewOfExperience(experience, pair) ==
    [experience EXCEPT !.starts_at = pair[1], !.ends_at = pair[2]]

\* An experience after the call, pair being what the call left in the
\* interval built from it: the interval is a list of its own, so what
\* merge_intervals writes into it does not reach the experience.
OwnList(experience, pair) == experience

\* the index in sorted(exps, key=...) of exps[i]; sorted() is stable and
\* returns a new list of the same objects
SortedIndex(exps, i, by) ==
    Cardinality({j \in 1..Len(exps) :
                    \/ Key(exps[j], by) < Key(exps[i], by)
                    \/ Key(exps[j], by) = Key(exps[i], by) /\ j <= i})

\* self.experiences as count_years_of_experience leaves it
experiences_after_count(exps, count_overlapping_experiences) ==
    LET pairs == IntervalsOf(SortedBy(exps, "starts_at"))
        left  == IF count_overlapping_experiences \/ pairs = <<>> THEN pairs
                 ELSE merge_intervals(pairs).arg
    IN  [i \in 1..Len(exps) |->
            OwnList(exps[i], left[SortedIndex(exps, i, "starts_at")])]

----------------------------------------------------------------------------
(* specifications.py: the specifications *)

\* class Profile, as the specifications read it
Profile(sk, loc, exps) == [skills |-> sk, location |-> loc, experiences |-> exps]

SetOf(s) == {s[i] : i \in 1..Len(s)}

RECURSIVE MaxOf(_)
MaxOf(S) ==
    LET x == CHOOSE y \in S : TRUE
    IN  IF S = {x} THEN x ELSE Max(x, MaxOf(S \ {x}))

EmployerNameSpecification_is_satisfied_by(spec, candidate) ==
    LET experiences_to_be_checked ==
            get_n_last_experiences(candidate.experiences,
                                   spec.number_of_last_experiences_to_be_checked)
        employer_names ==
            LowerCaseFrozenSet({e.company_name : e \in SetOf(experiences_to_be_checked.val)})
    IN  IF experiences_to_be_checked.err # NoErr THEN experiences_to_be_checked
        ELSE Ok(employer_names \cap spec.companies_expected # {})

LocationSpecification_is_satisfied_by(spec, candidate) ==
    Ok(\/ candidate.location.country \in spec.expected_locations
       \/ candidate.location.city \in spec.expected_locations)

TotalWorkExperienceSpecification_is_satisfied_by(spec, candidate) ==
    LET total_years_of_experience ==
            count_years_of_experience(candidate.experiences,
                                      spec.count_overlapping_experiences)
    IN  IF total_years_of_experience.err # NoErr THEN total_years_of_experience
        ELSE Ok(comparison_functions(spec.comparison_operand,
                                     total_years_of_experience.val,
                                     10 * spec.years_of_experience_expected))

SkillsSpecification_is_satisfied_by(spec, candidate) ==
    Ok(has_intersection_or_is_subset(LowerCaseFrozenSet(candidate.skills),
                                     spec.expected_skills, spec.number_of_hits))

SkillsAtWorkSpecification_is_satisfied_by(spec, candidate) ==
    LET experiences_to_be_checked ==
            get_n_last_experiences(candidate.experiences,
                                   spec.number_of_last_experiences_to_be_checked)
        skills_to_be_checked ==
            LowerCaseFrozenSet(UNION {e.skills : e \in SetOf(experiences_to_be_checked.val)})
    IN  IF experiences_to_be_checked.err # NoErr THEN experiences_to_be_checked
        ELSE Ok(has_intersection_or_is_subset(skills_to_be_checked,
                                              spec.expected_skills, spec.number_of_hits))

PositionSpecification_is_satisfied_by(spec, candidate) ==
    LET experiences_to_be_checked ==
            get_n_last_experiences(candidate.experiences,
                                   spec.number_of_last_experiences_to_be_checked)
        positions_held ==
            LowerCaseFrozenSet({e.job_title : e \in SetOf(experiences_to_be_checked.val)})
    IN  IF experiences_to_be_checked.err # NoErr THEN experiences_to_be_checked
        ELSE Ok(positions_held \cap spec.positions_expected # {})

\* max() of an empty list raises ValueError; its key (ends_at - starts_at)
\* raises TypeError on an ends_at that is None.
WorkExperienceLengthSpecification_is_satisfied_by(spec, candidate) ==
    LET last_n_experiences ==
            get_n_last_experiences(candidate.experiences,
                                   spec.number_of_last_experiences_to_be_checked)
        checked == SetOf(last_n_experiences.val)
    IN  IF last_n_experiences.err # NoErr THEN last_n_experiences
        ELSE IF checked = {} THEN Raise("ValueError")
        ELSE IF \E e \in checked : e.ends_at = None THEN Raise("TypeError")
        ELSE LET longest_experience_in_days ==
                     MaxOf({e.ends_at - e.starts_at : e \in checked})
             IN  Ok(comparison_functions(spec.comparison_operand,
                                         YearsInTenths(longest_experience_in_days),
                                         10 * spec.years_of_experience_expected))

Leaf_is_satisfied_by(spec, candidate) ==
    CASE spec.kind = "EmployerNameSpecification" ->
             EmployerNameSpecification_is_satisfied_by(spec, candidate)
      [] spec.kind = "LocationSpecification" ->
             LocationSpecification_is_satisfied_by(spec, candidate)
      [] spec.kind = "TotalWorkExperienceSpecification" ->
             TotalWorkExperienceSpecification_is_satisfied_by(spec, candidate)
      [] spec.kind = "SkillsSpecification" ->
             SkillsSpecification_is_satisfied_by(spec, candidate)
      [] spec.kind = "SkillsAtWorkSpecification" ->
             SkillsAtWorkSpecification_is_satisfied_by(spec, candidate)
      [] spec.kind = "PositionSpecification" ->
             PositionSpecification_is_satisfied_by(spec, candidate)
      [] spec.kind = "WorkExperienceLengthSpecification" ->
             WorkExperienceLengthSpecification_is_satisfied_by(spec, candidate)

\* candidate as the leaf's is_satisfied_by leaves it: of all the leaves only
\* TotalWorkExperienceSpecification calls code that writes (merge_intervals,
\* through count_years_of_experience); the others read sorted copies.
Leaf_candidate_after(spec, candidate) ==
    IF spec.kind = "TotalWorkExperienceSpecification"
    THEN [candidate EXCEPT !.experiences =
              experiences_after_count(candidate.experiences,
                                      spec.count_overlapping_experiences)]
    ELSE candidate

\* mutant of AndAlso: the second child is evaluated whatever the first returned
AndBoth(first, second) ==
    IF first.err # NoErr THEN first
    ELSE [err       |-> second.err,
          val       |-> second.err = NoErr /\ first.val /\ second.val,
          printed   |-> first.printed \o second.printed,
          calls     |-> first.calls \o second.calls,
          candidate |-> second.candidate]

\* first.is_satisfied_by(candidate) and second.is_satisfied_by(candidate):
\* "and" yields the first operand when it is false, and only otherwise
\* evaluates the second and yields it.
AndAlso(first, second) ==
    IF first.err # NoErr \/ ~first.val THEN first
    ELSE [err       |-> second.err,
          val       |-> second.val,
          printed   |-> first.printed \o second.printed,
          calls     |-> first.calls \o second.calls,
          candidate |-> second.candidate]

\* is_satisfied_by of any specification.  val is the value returned, printed
\* the rejection messages in the order they were printed (each named by the
\* specification that printed it), calls the leaves whose is_satisfied_by
\* ran, candidate the profile object as the call leaves it (the second child
\* of an And is handed the object the first child was handed).
RECURSIVE is_satisfied_by(_, _)
is_satisfied_by(spec, candidate) ==
    IF spec.kind = "AndSpecification"
    THEN LET first == is_satisfied_by(spec.first, candidate)
         IN  AndAlso(first, is_satisfied_by(spec.second, first.candidate))
    ELSE LET r == Leaf_is_satisfied_by(spec, candidate)
         IN  [err       |-> r.err,
              val       |-> r.err = NoErr /\ r.val,
              printed   |-> IF r.err = NoErr /\ ~r.val THEN <<spec.kind>> ELSE <<>>,
              calls     |-> <<spec.kind>>,
              candidate |-> Leaf_candidate_after(spec, candidate)]

----------------------------------------------------------------------------
(* specifications.py: specification_factory, chain_specifications_for_position *)

SelectionCriteria ==
    {"employer", "location", "experience_total", "skills", "skills_at_work",
     "position", "duration_of_employment"}

\* what the factory returns for a criteria name it does not support
NoSpecification == [kind |-> "None"]

\* criteria_value.get(key, None)
Get(criteria_value, key) ==
    IF key \in DOMAIN criteria_value THEN criteria_value[key] ELSE None

\* The body of the loop over enumerate(criteria_value['countries']) at index
\* (1-based): the set handed to LocationSpecification there
CountriesAt(countries, index) ==
    IF Upper(countries[index]) = "EU"
    THEN SetOf(SubSeq(countries, 1, index - 1)) \cup EU_COUNTRIES
             \cup SetOf(SubSeq(countries, index + 1, Len(countries)))
    ELSE SetOf(countries)

\* mutant of WindowIsBad: a window of 0 passes the check
WindowIsNegative(criteria_value) ==
    /\ "check_last_n_experiences" \in DOMAIN criteria_value
    /\ criteria_value["check_last_n_experiences"] < 0

\* if check_last_n_experiences < 1: raise ValueError
WindowIsBad(criteria_value) ==
    /\ "check_last_n_experiences" \in DOMAIN criteria_value
    /\ criteria_value["check_last_n_experiences"] < 1

specification_factory(criteria_name, criteria_value) ==
    IF WindowIsBad(criteria_value) THEN Raise("ValueError")
    ELSE CASE criteria_name = "employer" ->
                Ok([kind |-> "EmployerNameSpecification",
                    companies_expected |->
                        IF criteria_value["name"] = "FAANG" THEN FAANG
                        ELSE LowerCaseFrozenSet({criteria_value["name"]}),
                    number_of_last_experiences_to_be_checked |->
                        criteria_value["check_last_n_experiences"]])
           [] criteria_name = "location" ->
                IF criteria_value["countries"] = <<>> /\ criteria_value["cities"] = <<>>
                THEN Raise("ValueError")
                ELSE IF criteria_value["countries"] # <<>>
                     \* the return statement sits inside the loop: the first
                     \* iteration returns
                     THEN Ok([kind |-> "LocationSpecification",
                              expected_locations |->
                                  CountriesAt(criteria_value["countries"], 1)])
                     ELSE Ok([kind |-> "LocationSpecification",
                              expected_locations |-> SetOf(criteria_value["cities"])])
           [] criteria_name = "experience_total" ->
                Ok([kind |-> "TotalWorkExperienceSpecification",
                    years_of_experience_expected |-> criteria_value["years"],
                    comparison_operand |-> criteria_value["comparison_operand"],
                    count_overlapping_experiences |-> FALSE])
           [] criteria_name = "skills" ->
                Ok([kind |-> "SkillsSpecification",
                    expected_skills |-> LowerCaseFrozenSet(SetOf(criteria_value["name"])),
                    number_of_hits |-> Get(criteria_value, "number_of_hits")])
           [] criteria_name = "skills_at_work" ->
                Ok([kind |-> "SkillsAtWorkSpecification",
                    expected_skills |-> LowerCaseFrozenSet(SetOf(criteria_value["name"])),
                    number_of_hits |-> Get(criteria_value, "number_of_hits"),
                    number_of_last_experiences_to_be_checked |->
                        Get(criteria_value, "check_last_n_experiences")])
           [] criteria_name = "position" ->
                Ok([kind |-> "PositionSpecification",
                    positions_expected |-> LowerCaseFrozenSet(SetOf(criteria_value["name"])),
                    number_of_last_experiences_to_be_checked |->
                        Get(criteria_value, "check_last_n_experiences")])
           [] criteria_name = "duration_of_employment" ->
                Ok([kind |-> "WorkExperienceLengthSpecification",
                    years_of_experience_expected |-> criteria_value["years"],
                    comparison_operand |-> criteria_value["comparison_operand"],
                    number_of_last_experiences_to_be_checked |->
                        criteria_value["check_last_n_experiences"]])
           [] OTHER -> Ok(NoSpecification)

\* if specification: specifications.append(specification)
IsKept(specification) == specification.kind # "None"

\* The loop over target_profile_criteria.items(): an exception of the
\* factory leaves the loop and the function
RECURSIVE BuildSpecifications(_, _)
BuildSpecifications(items, specifications) ==
    IF items = <<>> THEN Ok(specifications)
    ELSE LET specification == specification_factory(items[1].name, items[1].value)
         IN  IF specification.err # NoErr THEN specification
             ELSE BuildSpecifications(
                      Tail(items),
                      IF IsKept(specification.val)
                      THEN Append(specifications, specification.val)
                      ELSE specifications)

\* mutant of AndFold: the specifications are folded from the right
RECURSIVE AndFoldRight(_, _)
AndFoldRight(target_specification, rest) ==
    IF rest = <<>> THEN target_specification
    ELSE [kind   |-> "AndSpecification",
          first  |-> target_specification,
          second |-> AndFoldRight(Head(rest), Tail(rest))]

\* target_specification = target_specification.and_(specifications[i])
RECURSIVE AndFold(_, _)
AndFold(target_specification, rest) ==
    IF rest = <<>> THEN target_specification
    ELSE AndFold([kind   |-> "AndSpecification",
                  first  |-> target_specification,
                  second |-> Head(rest)],
                 Tail(rest))

chain_specifications_for_position(target_profile_criteria) ==
    LET specifications == BuildSpecifications(target_profile_criteria, <<>>)
    IN  IF specifications.err # NoErr THEN specifications
        ELSE IF specifications.val = <<>> THEN Raise("ValueError")
        ELSE Ok(AndFold(Head(specifications.val), Tail(specifications.val)))

----------------------------------------------------------------------------
(* SpecMerge: merge_intervals is called on a list pre-sorted by start *)

MergeDates == 0..MaxMergeDay

SortedByStart(ivs) == \A i \in 1..(Len(ivs) - 1) : ivs[i][1] <= ivs[i + 1][1]

IntervalLists ==
    {ivs \in UNION {[1..k -> MergeDates \X MergeDates] : k \in 1..MaxIntervals} :
        SortedByStart(ivs)}

InitMerge ==
    /\ pc = "sorted"
    /\ intervals \in IntervalLists
    /\ given = Idle
    /\ experiences = <<>>
    /\ lastN = 0
    /\ result = Idle
    /\ skills = {}
    /\ location = Idle
    /\ criteria = <<>>
    /\ target = Idle
    /\ printed = <<>>
    /\ calls = <<>>

\* utils.merge_intervals(intervals)
MergeIntervals ==
    /\ pc = "sorted"
    /\ LET r == merge_intervals(intervals)
       IN  /\ result' = [err |-> r.err, val |-> r.val]
           /\ intervals' = r.arg
    /\ given' = intervals
    /\ pc' = "merged"
    /\ UNCHANGED <<experiences, lastN, profileVars, chainVars>>

NextMerge == MergeIntervals

SpecMerge == InitMerge /\ [][NextMerge]_vars

----------------------------------------------------------------------------
(* main.py: the chain is built from the criteria, then the profile is
   parsed, then the chain is evaluated on it *)

\* target_specification = chain_specifications_for_position(criteria); an
\* exception ends the run before any profile is read
BuildChain ==
    /\ pc = "start"
    /\ target' = chain_specifications_for_position(criteria)
    /\ pc' = IF target'.err = NoErr THEN "chained" ELSE "aborted"
    /\ UNCHANGED <<experiences, lastN, result, intervals, given, profileVars,
                   criteria, printed, calls>>

\* valid_profile = Profile(...)
ParseProfile ==
    /\ pc = "chained"
    /\ experiences' = check_start_date_precedes_end_date(experiences)
    /\ pc' = "parsed"
    /\ UNCHANGED <<lastN, result, intervals, given, profileVars, chainVars>>

\* target_specification.is_satisfied_by(profile)
Evaluate ==
    /\ pc = "parsed"
    /\ LET r == is_satisfied_by(target.val, Profile(skills, location, experiences))
       IN  /\ result' = [err |-> r.err, val |-> r.val]
           /\ printed' = r.printed
           /\ calls' = r.calls
           /\ pc' = IF r.err = NoErr THEN "evaluated" ELSE "crashed"
           /\ experiences' = r.candidate.experiences
           /\ skills' = r.candidate.skills
           /\ location' = r.candidate.location
    /\ UNCHANGED <<lastN, intervals, given, criteria, target>>

NextMain == BuildChain \/ ParseProfile \/ Evaluate

\* the raw experience records of the profiles the runs read
Glovo == Experience("Glovo", "Product Designer", {"Sketch"}, 0, 365)

Google == Experience("Google", "UX Designer", {"Miro", "Figma"}, 365, 1095)

Ongoing == Experience("NASA", "UX Designer", {"MIRO"}, 0, None)

Inverted == Experience("Glovo", "Product Designer", {"Figma"}, 1095, 365)

Item(n, v) == [name |-> n, value |-> v]

InitRun ==
    /\ pc = "start"
    /\ lastN = 0
    /\ result = Idle
    /\ intervals = <<>>
    /\ given = Idle
    /\ target = Idle
    /\ printed = <<>>
    /\ calls = <<>>

----------------------------------------------------------------------------
(* SpecSkills: runs whose criteria are one skills or skills_at_work entry *)

SkillNames == {"Miro", "miro", "Sketch"}

SkillsValues ==
    {[name |-> n] : n \in SeqsUpTo(SkillNames, MaxNames)}
    \cup {[name |-> n, number_of_hits |-> k] :
              n \in SeqsUpTo(SkillNames, MaxNames), k \in 0..MaxHits}

SkillsAtWorkValues ==
    {[name |-> n, check_last_n_experiences |-> w] :
         n \in SeqsUpTo(SkillNames, MaxNames), w \in 1..MaxWindow}
    \cup {[name |-> n, check_last_n_experiences |-> w, number_of_hits |-> k] :
              n \in SeqsUpTo(SkillNames, MaxNames), w \in 1..MaxWindow, k \in 0..MaxHits}

InitSkills ==
    /\ InitRun
    /\ criteria \in {<<Item("skills", v)>> : v \in SkillsValues}
                    \cup {<<Item("skills_at_work", v)>> : v \in SkillsAtWorkValues}
    /\ skills \in SUBSET {"MIRO", "Sketch", "Figma"}
    /\ location = [city |-> "Barcelona", country |-> "Spain"]
    /\ experiences \in SeqsUpTo({Glovo, Google, Inverted, Ongoing}, MaxRunExp)

SpecSkills == InitSkills /\ [][NextMain]_vars

----------------------------------------------------------------------------
(* SpecLocation: runs whose criteria are one location entry *)

CountryTokens == {"EU", "eu", "USA", "Serbia"}

LocationValues ==
    {[countries |-> cs, cities |-> ct] :
         cs \in SeqsUpTo(CountryTokens, MaxCountries),
         ct \in {<<>>, <<"Belgrade">>}}

InitLocation ==
    /\ InitRun
    /\ criteria \in {<<Item("location", v)>> : v \in LocationValues}
    /\ skills = {"Figma"}
    /\ location \in [city : {"Barcelona", "Belgrade"},
                     country : {"Spain", "USA", "Serbia", "Norway"}]
    /\ experiences = <<Glovo>>

SpecLocation == InitLocation /\ [][NextMain]_vars

----------------------------------------------------------------------------
(* SpecChain: runs over criteria mappings of every shape: recognized and
   unrecognized names in any order, windows from 0 up, a location entry
   with or without locations *)

Windowed(v) == {[v EXCEPT !["check_last_n_experiences"] = w] : w \in 0..MaxWindow}

\* the values an entry of the given name may carry
ChainValues(criteria_name) ==
    CASE criteria_name = "employer" ->
             Windowed([name |-> "Google", check_last_n_experiences |-> 1])
      [] criteria_name = "location" ->
             {[countries |-> <<"Spain">>, cities |-> <<>>],
              [countries |-> <<>>, cities |-> <<>>]}
      [] criteria_name = "experience_total" ->
             {[years |-> 1, comparison_operand |-> ">="]}
      [] criteria_name = "skills" ->
             {[name |-> <<"Figma">>]}
      [] criteria_name = "skills_at_work" ->
             Windowed([name |-> <<"Sketch">>, check_last_n_experiences |-> 1])
      [] criteria_name = "position" ->
             Windowed([name |-> <<"UX Designer">>, check_last_n_experiences |-> 1])
      [] criteria_name = "duration_of_employment" ->
             Windowed([years |-> 1, comparison_operand |-> ">=",
                       check_last_n_experiences |-> 1])
      [] OTHER ->
             {[amount |-> 1], [amount |-> 1, check_last_n_experiences |-> 0]}

\* names no SelectionCriteria member carries
UnsupportedNames == {"salary"}

\* the items of a mapping: the keys of a dict are distinct
Mappings(items, n) ==
    {m \in SeqsUpTo(items, n) :
        \A i \in 1..Len(m) : \A j \in 1..Len(m) : m[i].name = m[j].name => i = j}

ChainItems ==
    UNION {{Item(nm, v) : v \in ChainValues(nm)} :
               nm \in SelectionCriteria \cup UnsupportedNames}

InitChain ==
    /\ InitRun
    /\ criteria \in Mappings(ChainItems, MaxCriteria)
    /\ skills = {"Figma"}
    /\ location = [city |-> "Barcelona", country |-> "Spain"]
    /\ experiences \in {<<>>, <<Google, Glovo>>}

SpecChain == InitChain /\ [][NextMain]_vars

----------------------------------------------------------------------------
(* SpecEval: runs over valid criteria mappings, in every order, and
   profiles of every kind *)

EvalValues(criteria_name) ==
    CASE criteria_name = "employer" ->
             {[name |-> "FAANG", check_last_n_experiences |-> 1]}
      [] criteria_name = "location" ->
             {[countries |-> <<"EU">>, cities |-> <<>>]}
      [] criteria_name = "experience_total" ->
             {[years |-> 2, comparison_operand |-> ">="]}
      [] criteria_name = "skills" ->
             {[name |-> <<"Figma">>]}
      [] criteria_name = "skills_at_work" ->
             {[name |-> <<"Miro", "Sketch">>, check_last_n_experiences |-> 2,
               number_of_hits |-> 2]}
      [] criteria_name = "position" ->
             {[name |-> <<"Product Designer">>, check_last_n_experiences |-> 1]}
      [] criteria_name = "duration_of_employment" ->
             {[years |-> 2, comparison_operand |-> ">=", check_last_n_experiences |-> 2]}

EvalItems == UNION {{Item(nm, v) : v \in EvalValues(nm)} : nm \in SelectionCriteria}

InitEval ==
    /\ InitRun
    /\ criteria \in Mappings(EvalItems, MaxCriteria)
    /\ skills \in {{}, {"Figma"}}
    /\ location \in {[city |-> "Barcelona", country |-> "Spain"],
                     [city |-> "Belgrade", country |-> "Serbia"]}
    /\ experiences \in SeqsUpTo({Glovo, Google, Inverted, Ongoing}, MaxRunExp)

SpecEval == InitEval /\ [][NextMain]_vars

----------------------------------------------------------------------------
(* SpecYears: a Profile is constructed from raw data, then its years of
   experience are counted, with or without the overlapping experiences *)

MaxYearExp == 3   \* raw experiences per profile

\* day numbers whose differences lie on both sides of a rounding step
\* (18 days round to 0.0 years, 19 days to 0.1) and reach a whole year
YearDates == {0, 18, 37, 365}

RawYearExperiences ==
    {Experience("acme", "dev", {}, s, e) : s \in YearDates, e \in YearDates \cup {None}}

InitYears ==
    /\ pc = "raw"
    /\ experiences \in SeqsUpTo(RawYearExperiences, MaxYearExp)
    /\ lastN = 0
    /\ result = Idle
    /\ intervals = <<>>
    /\ given = Idle
    /\ skills = {}
    /\ location = Idle
    /\ criteria = <<>>
    /\ target = Idle
    /\ printed = <<>>
    /\ calls = <<>>

\* profile.count_years_of_experience(count_overlapping_experiences)
CountYears ==
    /\ pc = "constructed"
    /\ \E count_overlapping_experiences \in BOOLEAN :
         /\ given' = count_overlapping_experiences
         /\ result' = count_years_of_experience(experiences,
                                                count_overlapping_experiences)
         /\ experiences' = experiences_after_count(experiences,
                                                   count_overlapping_experiences)
    /\ pc' = "counted"
    /\ UNCHANGED <<lastN, intervals, profileVars, chainVars>>

NextYears == Construct \/ CountYears

SpecYears == InitYears /\ [][NextYears]_vars

----------------------------------------------------------------------------
(* Claims about the Profile model, checked under SpecProfile *)

SeqToBag(s) ==
    LET img == {s[i] : i \in 1..Len(s)}
    IN  [x \in img |-> Cardinality({i \in 1..Len(s) : s[i] = x})]

MostRecentFirst(s) ==
    \A i \in 1..Len(s) : \A j \in i..Len(s) :
        /\ s[i].ends_at # None
        /\ s[j].ends_at # None
        /\ s[i].ends_at >= s[j].ends_at

\* C1: after Profile construction every experience left in the list has a
\* non-null ends_at and starts_at < ends_at.
C1_KeptExperiencesAreValid ==
    pc # "raw" =>
        \A i \in 1..Len(experiences) :
            /\ experiences[i].ends_at # None
            /\ experiences[i].starts_at < experiences[i].ends_at

\* C3: a get_n_last_experiences(n) call with n >= len(experiences) that
\* returns, returns all the experiences ordered most-recent-first.
C3_AllMostRecentFirst ==
    (pc = "queried" /\ lastN >= Len(experiences) /\ result.err = NoErr) =>
        /\ SeqToBag(result.val) = SeqToBag(experiences)
        /\ MostRecentFirst(result.val)

\* C4: get_n_last_experiences(n) with 1 <= n < len(experiences) returns
\* exactly n experiences, most-recent-first, and no experience left out ends
\* later than one that is returned.
C4_LastNMostRecentFirst ==
    (pc = "queried" /\ 1 <= lastN /\ lastN < Len(experiences)) =>
        /\ result.err = NoErr
        /\ Len(result.val) = lastN
        /\ MostRecentFirst(result.val)
        /\ SeqToBag(result.val) \sqsubseteq SeqToBag(experiences)
        /\ LET rest == SeqToBag(experiences) (-) SeqToBag(result.val)
           IN  \A x \in BagToSet(rest) : \A i \in 1..Len(result.val) :
                   x.ends_at # None /\ x.ends_at <= result.val[i].ends_at

\* What C4 says of the calls that return (used to locate the divergence)
C4_WhenItReturns ==
    (pc = "queried" /\ 1 <= lastN /\ lastN < Len(experiences) /\ result.err = NoErr) =>
        /\ Len(result.val) = lastN
        /\ MostRecentFirst(result.val)
        /\ SeqToBag(result.val) \sqsubseteq SeqToBag(experiences)
        /\ LET rest == SeqToBag(experiences) (-) SeqToBag(result.val)
           IN  \A x \in BagToSet(rest) : \A i \in 1..Len(result.val) :
                   x.ends_at <= result.val[i].ends_at

----------------------------------------------------------------------------
(* Claims about merge_intervals, checked under SpecMerge *)

\* the days of [start, end), and of [start, end]
DaysOf(iv) == {d \in MergeDates : iv[1] <= d /\ d < iv[2]}

DaysOfClosed(iv) == {d \in MergeDates : iv[1] <= d /\ d <= iv[2]}

Covered(ivs) == UNION {DaysOf(ivs[i]) : i \in 1..Len(ivs)}

CoveredClosed(ivs) == UNION {DaysOfClosed(ivs[i]) : i \in 1..Len(ivs)}

Apart(ivs) == \A i \in 1..(Len(ivs) - 1) : ivs[i][2] < ivs[i + 1][1]

\* C5: on a non-empty list pre-sorted by start merge_intervals returns the
\* minimal disjoint cover in ascending order: consecutive output intervals
\* neither overlap nor touch, the output covers the days the input covers,
\* and an input already disjoint and non-touching comes back unchanged.
C5_MinimalDisjointCover ==
    pc = "merged" =>
        /\ result.err = NoErr
        /\ Apart(result.val)
        /\ SortedByStart(result.val)
        /\ Covered(result.val) = Covered(given)
        /\ CoveredClosed(result.val) = CoveredClosed(given)
        /\ Len(result.val) <= Len(given)
        /\ Apart(given) => result.val = given

\* C5 witness: a merge that joined overlapping intervals and kept a gap
C5_Witness ==
    /\ pc = "merged"
    /\ Len(given) = 3
    /\ Len(result.val) = 2
    /\ result.val # SubSeq(given, 1, 2)
    /\ result.val # SubSeq(given, 2, 3)

----------------------------------------------------------------------------
(* Claims about the hit rule, checked under SpecSkills *)

\* the skill set a Skills or SkillsAtWork criterion evaluates, lower-cased
EvaluatedSkills(item) ==
    LowerCaseFrozenSet(
        IF item.name = "skills" THEN skills
        ELSE UNION {e.skills : e \in SetOf(get_n_last_experiences(
                        experiences, item.value["check_last_n_experiences"]).val)})

\* C6: when a hit-count k >= 0 is given, a Skills or SkillsAtWork
\* specification is satisfied iff the case-insensitive intersection of the
\* evaluated and the expected skills has exactly k elements; the subset rule
\* applies only when no hit-count is given.
C6_HitRule ==
    pc = "evaluated" =>
        LET item      == criteria[1]
            k         == Get(item.value, "number_of_hits")
            expected  == LowerCaseFrozenSet(SetOf(item.value["name"]))
            evaluated == EvaluatedSkills(item)
        IN  result.val = IF k # None
                         THEN Cardinality(evaluated \cap expected) = k
                         ELSE expected \subseteq evaluated

\* What C6 says of the criteria without a hit-count, or with one that is not 0
C6_HitRuleButZero ==
    (pc = "evaluated" /\ Get(criteria[1].value, "number_of_hits") # 0) =>
        LET item      == criteria[1]
            k         == Get(item.value, "number_of_hits")
            expected  == LowerCaseFrozenSet(SetOf(item.value["name"]))
            evaluated == EvaluatedSkills(item)
        IN  result.val = IF k # None
                         THEN Cardinality(evaluated \cap expected) = k
                         ELSE expected \subseteq evaluated

----------------------------------------------------------------------------
(* Claims about the location criterion, checked under SpecLocation *)

HasEUToken(countries) == \E i \in 1..Len(countries) : Upper(countries[i]) = "EU"

LiteralCountries(countries) == {c \in SetOf(countries) : Upper(c) # "EU"}

\* C7: when the countries list holds the token EU (any case, any index), the
\* expected set of the Location specification holds the 27 EU countries and
\* every literal country of the list, so a profile in Spain or in a listed
\* literal country satisfies it.
C7_EUExpandsAnywhere ==
    LET countries == criteria[1].value["countries"]
    IN  HasEUToken(countries) =>
            /\ pc # "aborted"
            /\ pc \in {"chained", "parsed", "evaluated"} =>
                   /\ EU_COUNTRIES \subseteq target.val.expected_locations
                   /\ LiteralCountries(countries) \subseteq target.val.expected_locations
            /\ (/\ pc = "evaluated"
                /\ location.country \in {"Spain"} \cup LiteralCountries(countries))
                   => result.val = TRUE

\* What C7 says of the lists whose first element is the token
C7_EUExpandsWhenFirst ==
    LET countries == criteria[1].value["countries"]
    IN  (countries # <<>> /\ Upper(countries[1]) = "EU") =>
            /\ pc # "aborted"
            /\ pc \in {"chained", "parsed", "evaluated"} =>
                   target.val.expected_locations =
                       EU_COUNTRIES \cup SetOf(Tail(countries))
            /\ (/\ pc = "evaluated"
                /\ location.country \in {"Spain"} \cup LiteralCountries(countries))
                   => result.val = TRUE

----------------------------------------------------------------------------
(* Claims about the chain builder, checked under SpecChain *)

HasWindowBelowOne(item) ==
    /\ "check_last_n_experiences" \in DOMAIN item.value
    /\ item.value["check_last_n_experiences"] <= 0

IsRecognized(item) == item.name \in SelectionCriteria

LocationIsEmpty(item) ==
    /\ item.name = "location"
    /\ item.value["countries"] = <<>>
    /\ item.value["cities"] = <<>>

\* the leaves of a tree, left to right
RECURSIVE Leaves(_)
Leaves(spec) ==
    IF spec.kind = "AndSpecification"
    THEN Leaves(spec.first) \o Leaves(spec.second)
    ELSE <<spec>>

\* a tree folded left-to-right: every second child is a leaf
RECURSIVE IsLeftFold(_)
IsLeftFold(spec) ==
    spec.kind = "AndSpecification" =>
        /\ spec.second.kind # "AndSpecification"
        /\ IsLeftFold(spec.first)

\* the specification class of each criteria name
KindOf(criteria_name) ==
    CASE criteria_name = "employer"               -> "EmployerNameSpecification"
      [] criteria_name = "location"               -> "LocationSpecification"
      [] criteria_name = "experience_total"       -> "TotalWorkExperienceSpecification"
      [] criteria_name = "skills"                 -> "SkillsSpecification"
      [] criteria_name = "skills_at_work"         -> "SkillsAtWorkSpecification"
      [] criteria_name = "position"               -> "PositionSpecification"
      [] criteria_name = "duration_of_employment" -> "WorkExperienceLengthSpecification"

RECURSIVE RecognizedKinds(_)
RecognizedKinds(items) ==
    IF items = <<>> THEN <<>>
    ELSE IF IsRecognized(Head(items))
         THEN <<KindOf(Head(items).name)>> \o RecognizedKinds(Tail(items))
         ELSE RecognizedKinds(Tail(items))

OneLeafPerRecognizedEntry ==
    /\ IsLeftFold(target.val)
    /\ [i \in 1..Len(Leaves(target.val)) |-> Leaves(target.val)[i].kind]
           = RecognizedKinds(criteria)

\* C8: if any entry of the mapping carries check_last_n_experiences < 1,
\* wherever it sits, building the chain fails with a ValueError, no
\* specification is returned and no profile is evaluated in that run.
C8_WindowBelowOneAborts ==
    (\E i \in 1..Len(criteria) : HasWindowBelowOne(criteria[i])) =>
        /\ pc \in {"start", "aborted"}
        /\ pc = "aborted" => target = Raise("ValueError")
        /\ result = Idle
        /\ calls = <<>>
        /\ printed = <<>>

\* C8 witness: the run was aborted by a window of 0 carried by the last of
\* three entries, after two entries that are in order
C8_Witness ==
    /\ pc = "aborted"
    /\ Len(criteria) = 3
    /\ HasWindowBelowOne(criteria[3])
    /\ ~HasWindowBelowOne(criteria[1]) /\ ~LocationIsEmpty(criteria[1])
    /\ ~HasWindowBelowOne(criteria[2]) /\ ~LocationIsEmpty(criteria[2])
    /\ IsRecognized(criteria[1])

\* C9 as stated: the chain is the left fold of one leaf per recognized
\* entry, unrecognized entries never abort, and building fails exactly when
\* no recognized entry remains.
C9_FailsOnlyWhenNothingRecognized ==
    pc # "start" =>
        /\ target.err # NoErr <=> \A i \in 1..Len(criteria) : ~IsRecognized(criteria[i])
        /\ target.err = NoErr => OneLeafPerRecognizedEntry

\* C9 as amended: building fails with a ValueError exactly when some entry
\* carries a window below 1, or a location entry names no country and no
\* city, or no entry is recognized; otherwise the chain is the left fold, in
\* the mapping's order, of one leaf per recognized entry.
C9_ChainOfRecognizedEntries ==
    pc # "start" =>
        /\ target.err \in {NoErr, "ValueError"}
        /\ target.err # NoErr <=>
               \/ \E i \in 1..Len(criteria) : HasWindowBelowOne(criteria[i])
               \/ \E i \in 1..Len(criteria) : LocationIsEmpty(criteria[i])
               \/ \A i \in 1..Len(criteria) : ~IsRecognized(criteria[i])
        /\ target.err = NoErr => OneLeafPerRecognizedEntry

\* C9 witness: a chain was built from a mapping of three entries whose
\* second entry is unrecognized: two leaves, the entry between them skipped
C9_Witness ==
    /\ pc = "chained"
    /\ Len(criteria) = 3
    /\ IsRecognized(criteria[1])
    /\ ~IsRecognized(criteria[2])
    /\ IsRecognized(criteria[3])
    /\ Len(Leaves(target.val)) = 2

\* a chain of three leaves, where the direction of the fold shows
C9_ThreeLeaves == pc = "chained" /\ Len(Leaves(target.val)) = 3

----------------------------------------------------------------------------
(* Claims about the evaluation of the chain, checked under SpecEval *)

Candidate == Profile(skills, location, experiences)

KindsOf(specs) == [i \in 1..Len(specs) |-> specs[i].kind]

\* the leaf returns True / returns False and prints / raises
LeafHolds(spec) ==
    LET r == Leaf_is_satisfied_by(spec, Candidate) IN r.err = NoErr /\ r.val

LeafRejects(spec) ==
    LET r == Leaf_is_satisfied_by(spec, Candidate) IN r.err = NoErr /\ ~r.val

LeafRaises(spec) == Leaf_is_satisfied_by(spec, Candidate).err # NoErr

\* C2 as stated: all the leaves of the chain are evaluated, also behind an
\* unsatisfied one, every unsatisfied leaf prints its message, and the value
\* returned is the conjunction of the leaves' results.
C2_BothChildrenEvaluated ==
    pc = "evaluated" =>
        LET leaves == Leaves(target.val)
        IN  /\ calls = KindsOf(leaves)
            /\ printed = KindsOf(SelectSeq(leaves, LeafRejects))
            /\ result.val = \A i \in 1..Len(leaves) : LeafHolds(leaves[i])

\* the first leaf, left to right, that does not return True (0 if all do)
FirstStop(leaves) ==
    IF \A i \in 1..Len(leaves) : LeafHolds(leaves[i]) THEN 0
    ELSE CHOOSE i \in 1..Len(leaves) :
             /\ ~LeafHolds(leaves[i])
             /\ \A j \in 1..(i - 1) : LeafHolds(leaves[j])

\* C2 as amended: the second child of an And is evaluated only when the
\* first returned True.  So the leaves are evaluated left to right up to the
\* first one that is unsatisfied or raises, only that leaf prints a message
\* (when it returned False), and the value returned is the conjunction of
\* the leaves' results: True iff every leaf returned True.
C2_SecondChildOnlyAfterTrue ==
    pc \in {"evaluated", "crashed"} =>
        LET leaves == Leaves(target.val)
            stop   == FirstStop(leaves)
        IN  IF stop = 0
            THEN /\ calls = KindsOf(leaves)
                 /\ printed = <<>>
                 /\ result = Ok(TRUE)
            ELSE /\ calls = KindsOf(SubSeq(leaves, 1, stop))
                 /\ printed = IF LeafRejects(leaves[stop])
                              THEN <<leaves[stop].kind>> ELSE <<>>
                 /\ result.val = FALSE
                 /\ result.err = Leaf_is_satisfied_by(leaves[stop], Candidate).err

\* C2 witness: an And whose first child was unsatisfied and whose second
\* child, unsatisfied too, was not evaluated
C2_Witness ==
    /\ pc = "evaluated"
    /\ Len(Leaves(target.val)) = 2
    /\ LeafRejects(Leaves(target.val)[1])
    /\ LeafRejects(Leaves(target.val)[2])
    /\ Len(calls) = 1

Orders(n) ==
    {f \in [1..n -> 1..n] : \A i \in 1..n : \A j \in 1..n : f[i] = f[j] => i = j}

\* what the run yields with the mapping's entries in the order f
OutcomeInOrder(f) ==
    LET reordered == [i \in 1..Len(criteria) |-> criteria[f[i]]]
        r == is_satisfied_by(chain_specifications_for_position(reordered).val, Candidate)
    IN  [err |-> r.err, val |-> r.val]

\* C10: the outcome of evaluating the chain is the same for every insertion
\* order of the mapping's entries: same verdict, and the evaluation
\* completes in one order iff it completes in every order; the verdict is
\* the conjunction of the leaf verdicts.
C10_OrderDoesNotMatter ==
    pc \in {"evaluated", "crashed"} =>
        /\ \A f \in Orders(Len(criteria)) : OutcomeInOrder(f) = result
        /\ result.err = NoErr =>
               result.val = \A i \in 1..Len(Leaves(target.val)) :
                                LeafHolds(Leaves(target.val)[i])

\* What C10 says of the profiles on which no leaf of the chain raises
C10_WhenNoLeafRaises ==
    (/\ pc \in {"evaluated", "crashed"}
     /\ \A i \in 1..Len(Leaves(target.val)) : ~LeafRaises(Leaves(target.val)[i])) =>
        /\ \A f \in Orders(Len(criteria)) : OutcomeInOrder(f) = result
        /\ result.err = NoErr
        /\ result.val = \A i \in 1..Len(Leaves(target.val)) :
                            LeafHolds(Leaves(target.val)[i])

----------------------------------------------------------------------------
(* Claims about the years of experience, checked under SpecYears *)

IsValid(e) == e.ends_at # None /\ e.starts_at < e.ends_at

\* C11: for every constructed profile on which both counts return, the
\* years counted without the overlapping experiences (the merged intervals)
\* are at most the years counted with them (the raw intervals).
C11_MergedNeverExceedsRaw ==
    LET raw == count_years_of_experience(experiences, TRUE)
    IN  (pc = "counted" /\ given = FALSE /\ result.err = NoErr /\ raw.err = NoErr) =>
            result.val <= raw.val

\* What C11 says of the profiles whose experiences all have
\* starts_at < ends_at
C11_WhenExperiencesValid ==
    LET raw == count_years_of_experience(experiences, TRUE)
    IN  (/\ pc = "counted" /\ given = FALSE /\ experiences # <<>>
         /\ \A i \in 1..Len(experiences) : IsValid(experiences[i])) =>
            /\ result.err = NoErr
            /\ raw.err = NoErr
            /\ result.val <= raw.val

\* C12: for a profile with no experience (none supplied, or all dropped at
\* construction) count_years_of_experience without overlaps returns 0 years:
\* merge_intervals is not called on the empty list.
C12_EmptyProfileCountsZero ==
    (pc = "counted" /\ given = FALSE /\ experiences = <<>>) => result = Ok(0)

\* What C12 says of the count with the overlapping experiences
C12_EmptyProfileRawCountsZero ==
    (pc = "counted" /\ given = TRUE /\ experiences = <<>>) => result = Ok(0)

----------------------------------------------------------------------------
(* Claims about the windowed leaves, checked under SpecEval *)

WindowedKinds ==
    {"EmployerNameSpecification", "SkillsAtWorkSpecification",
     "PositionSpecification", "WorkExperienceLengthSpecification"}

\* the leaves of the chain that look at the last N experiences
WindowedLeaves == SelectSeq(Leaves(target.val), LAMBDA leaf : leaf.kind \in WindowedKinds)

AllExperiencesValid == \A i \in 1..Len(experiences) : IsValid(experiences[i])

\* C13: when the chain was evaluated on a constructed profile whose experiences have
\* starts_at < ends_at, the empty profile included, is_satisfied_by of each
\* windowed leaf (Employer, SkillsAtWork, Position, DurationOfEmployment)
\* with a window >= 1 returns True or False and does not raise.
C13_WindowedLeavesNeverRaise ==
    (pc \in {"evaluated", "crashed"} /\ AllExperiencesValid) =>
        \A i \in 1..Len(WindowedLeaves) :
            /\ WindowedLeaves[i].number_of_last_experiences_to_be_checked >= 1
            /\ ~LeafRaises(WindowedLeaves[i])

\* What C13 says of the profiles that have an experience
C13_WhenProfileHasExperience ==
    (/\ pc \in {"evaluated", "crashed"}
     /\ AllExperiencesValid /\ experiences # <<>>) =>
        \A i \in 1..Len(WindowedLeaves) : ~LeafRaises(WindowedLeaves[i])

\* What C13 says of the Employer, SkillsAtWork and Position leaves
C13_OtherThanDuration ==
    (pc \in {"evaluated", "crashed"} /\ AllExperiencesValid) =>
        \A i \in 1..Len(WindowedLeaves) :
            WindowedLeaves[i].kind # "WorkExperienceLengthSpecification"
                => ~LeafRaises(WindowedLeaves[i])

----------------------------------------------------------------------------
(* Claims about what an evaluation leaves behind, checked under SpecEval *)

----------------------------------------------------------------------------
(* Claims about countries and cities given together, checked under
   SpecLocation *)

\* C15: for a location criterion whose countries and cities are both
\* non-empty, the Location specification the factory builds accepts a
\* profile whose city is listed, also when its country is not listed.
C15_CityAcceptedBesideCountries ==
    LET countries == criteria[1].value["countries"]
        cities    == criteria[1].value["cities"]
    IN  (/\ countries # <<>> /\ cities # <<>>
         /\ pc = "evaluated" /\ location.city \in SetOf(cities)) =>
            result.val = TRUE

\* What C15 says of the criteria that list cities only
C15_CitiesAlone ==
    LET countries == criteria[1].value["countries"]
        cities    == criteria[1].value["cities"]
    IN  (countries = <<>> /\ cities # <<>>) =>
            /\ pc \in {"chained", "parsed", "evaluated"} =>
                   target.val.expected_locations = SetOf(cities)
            /\ pc = "evaluated" => (result.val <=> location.city \in SetOf(cities))

\* What the code does when countries is non-empty: the cities are left out
C15_CountriesOnly ==
    LET countries == criteria[1].value["countries"]
    IN  (countries # <<>> /\ pc \in {"chained", "parsed", "evaluated"}) =>
            target.val.expected_locations = CountriesAt(countries, 1)

----------------------------------------------------------------------------
(* Claims about the argument of merge_intervals, checked under SpecMerge *)

\* C16: merge_intervals leaves its argument unchanged: after the call the
\* list and every pair in it, the first pair in particular, hold the values
\* they held before, and a second call on the same list returns the same
\* result.
C16_ArgumentUnchanged ==
    pc = "merged" =>
        /\ intervals = given
        /\ merge_intervals(intervals).val = result.val

\* What C16 says of the pairs behind the first, and of a second call: the
\* call writes into the first pair only, and merging what it left gives the
\* same list again
C16_OnlyFirstPairWritten ==
    pc = "merged" =>
        /\ Len(intervals) = Len(given)
        /\ \A i \in 2..Len(given) : intervals[i] = given[i]
        /\ intervals[1] = result.val[1]
        /\ merge_intervals(intervals).val = result.val

\* What C16 says of the lists in which the second pair starts behind the
\* end of the first
C16_WhenFirstPairNotExtended ==
    (pc = "merged" /\ (Len(given) = 1 \/ given[2][1] > given[1][2])) =>
        intervals = given

====
